---------------------------- MODULE Spec2Model ----------------------------
(***************************************************************************)
(* Model of the kundali_engine astronomical core (nakshatra-api):          *)
(*   core/ephemeris.py  - Julian Day, ayanamsa, planet positions           *)
(*   core/houses.py     - ascendant, house cusps, planet_house_number      *)
(*   core/dasha.py      - Vimshottari dasha periods                        *)
(*   core/panchang.py   - tithi, Rahu Kala                                 *)
(*   tools/kundali.py   - generate_kundali                                 *)
(*                                                                         *)
(* The engine is a set of pure functions.  A behaviour of the model is a   *)
(* sequence of calls: `call` names the function that ran last, `args` its  *)
(* arguments and `ret` what it returned (for the two iterative solvers,    *)
(* the state of the loop after each pass).                                 *)
(*                                                                         *)
(* Numbers.  Python floats are modelled in fixed point:                    *)
(*   - a Julian Day is a record [d |-> whole days, m |-> minutes 0..1439], *)
(*     i.e. JD = d + m/1440;                                               *)
(*   - an angle is an integer number of micro-degrees (1e-6 deg), so       *)
(*     360 deg = 360000000; where the code rounds to 6 decimals the raw    *)
(*     value carries one more decimal digit (tenths of a micro-degree).    *)
(***************************************************************************)
EXTENDS Integers, Sequences, FiniteSets, TLC

VARIABLES call, args, ret

vars == <<call, args, ret>>

NoValue == [none |-> TRUE]

(***************************************************************************)
(* Bounds of the model.                                                    *)
(***************************************************************************)
MinYear == 1800
MaxYear == 2100

(***************************************************************************)
(* math: int() truncates toward zero; a // b and a % b floor.              *)
(***************************************************************************)
FloorDiv(a, b) == a \div b

PyInt(num, den) == IF num >= 0 THEN num \div den ELSE -((-num) \div den)

MinutesPerDay == 24 * 60

(***************************************************************************)
(* JULIAN DAY  (ephemeris.py, Meeus ch. 7)                                 *)
(***************************************************************************)
\* A Julian Day from whole days and a (possibly out of range) minute count.
JdNorm(days, minutes) ==
    [d |-> days + FloorDiv(minutes, MinutesPerDay), m |-> minutes % MinutesPerDay]

\* Faulty variant of gregorian_to_jd: the century correction is B = 2 - A.
gregorian_to_jd_noleap400(year, month, day, hourMin) ==
    LET y == IF month <= 2 THEN year - 1 ELSE year
        mo == IF month <= 2 THEN month + 12 ELSE month
        A == PyInt(y, 100)
        B == 2 - A
    IN  JdNorm(PyInt(1461 * (y + 4716), 4) + PyInt(306001 * (mo + 1), 10000)
                 + day + B - 1525,
               720 + hourMin)

\* gregorian_to_jd(year, month, day, hour): hour is given in minutes.
\*   int(365.25*(year+4716))  = int(1461*(year+4716)/4)
\*   int(30.6001*(month+1))   = int(306001*(month+1)/10000)
\*   ... - 1524.5 + hour/24   = (... - 1525) days + (720 + hourMin) minutes
gregorian_to_jd(year, month, day, hourMin) ==
    LET y == IF month <= 2 THEN year - 1 ELSE year
        mo == IF month <= 2 THEN month + 12 ELSE month
        A == PyInt(y, 100)
        B == 2 - A + PyInt(A, 4)
    IN  JdNorm(PyInt(1461 * (y + 4716), 4) + PyInt(306001 * (mo + 1), 10000)
                 + day + B - 1525,
               720 + hourMin)

\* Faulty variant of jd_to_gregorian: 30.6 in place of 30.6001.
jd_to_gregorian_306(jd) ==
    LET j == JdNorm(jd.d, jd.m + 720)
        Z == j.d
        a == PyInt(4 * Z - 7468865, 146097)
        A == IF Z < 2299161 THEN Z ELSE Z + 1 + a - PyInt(a, 4)
        B == A + 1524
        C == PyInt(20 * B - 2442, 7305)
        D == PyInt(1461 * C, 4)
        E == PyInt(10 * (B - D), 306)
        month == IF E < 14 THEN E - 1 ELSE E - 13
    IN  [year |-> IF month > 2 THEN C - 4716 ELSE C - 4715,
         month |-> month,
         day |-> B - D - PyInt(306 * E, 10),
         dayMin |-> j.m]

\* jd_to_gregorian(jd): returns (year, month, day-with-fraction); the day is
\* returned as whole day plus dayMin minutes (F = dayMin/1440).
\*   int((Z-1867216.25)/36524.25) = int((4Z-7468865)/146097)
\*   int((B-122.1)/365.25)        = int((20B-2442)/7305)
\*   int((B-D)/30.6001)           = int(10000(B-D)/306001)
jd_to_gregorian(jd) ==
    LET j == JdNorm(jd.d, jd.m + 720)
        Z == j.d
        a == PyInt(4 * Z - 7468865, 146097)
        A == IF Z < 2299161 THEN Z ELSE Z + 1 + a - PyInt(a, 4)
        B == A + 1524
        C == PyInt(20 * B - 2442, 7305)
        D == PyInt(1461 * C, 4)
        E == PyInt(10000 * (B - D), 306001)
        month == IF E < 14 THEN E - 1 ELSE E - 13
    IN  [year |-> IF month > 2 THEN C - 4716 ELSE C - 4715,
         month |-> month,
         day |-> B - D - PyInt(306001 * E, 10000),
         dayMin |-> j.m]

\* the leap-year rule and the days_in_month table of generate_kundali
IsLeap(y) == y % 4 = 0 /\ (y % 100 # 0 \/ y % 400 = 0)

DaysInMonth(y, mo) ==
    IF mo = 2 THEN (IF IsLeap(y) THEN 29 ELSE 28)
    ELSE IF mo \in {4, 6, 9, 11} THEN 30 ELSE 31

(***************************************************************************)
(* Angles: integer micro-degrees.                                          *)
(***************************************************************************)
Deg == 1000 * 1000

Circle == 360 * Deg

\* _n(x) = x % 360.0
N360(x) == x % Circle

Abs(x) == IF x < 0 THEN -x ELSE x

(***************************************************************************)
(* HOUSE SYSTEMS  (houses.py)                                              *)
(***************************************************************************)
\* Faulty variant of whole_sign_cusps: the Ascendant is rounded to the
\* nearest sign boundary instead of truncated.
whole_sign_cusps_nearest(ascendant) ==
    LET lagna_sign == PyInt(ascendant + 15 * Deg, 30 * Deg) * 30 * Deg
    IN  [i \in 1..12 |-> (lagna_sign + 30 * Deg * (i - 1)) % Circle]

\* whole_sign_cusps(ascendant): lagna_sign = int(ascendant / 30) * 30 and
\* cusp i (0-based) = (lagna_sign + 30*i) % 360.  Sequences are 1-based:
\* element i is the cusp of house i.
whole_sign_cusps(ascendant) ==
    LET lagna_sign == PyInt(ascendant, 30 * Deg) * 30 * Deg
    IN  [i \in 1..12 |-> (lagna_sign + 30 * Deg * (i - 1)) % Circle]

\* Faulty variant of equal_house_cusps: the list is built with range(1, 12),
\* 11 cusps, the Ascendant itself missing.
equal_house_cusps_range11(ascendant) ==
    [i \in 1..11 |-> (ascendant + 30 * Deg * i) % Circle]

\* equal_house_cusps(ascendant): cusp i (0-based) = (ascendant + 30*i) % 360.
equal_house_cusps(ascendant) ==
    [i \in 1..12 |-> (ascendant + 30 * Deg * (i - 1)) % Circle]

\* koch_cusps(lst, latitude, obliquity) after asc and mc have been computed:
\* arc = (asc - mc) % 360; cusps = [mc] + [(mc + arc*i/3) % 360 for i in 1..11].
\* arc*i/3 is computed as (arc div 3)*i + ((arc mod 3)*i) div 3 to stay within
\* 32 bits.
koch_cusps(asc, mc) ==
    LET arc == (asc - mc) % Circle
    IN  [i \in 1..12 |->
            IF i = 1 THEN mc
            ELSE (mc + (arc \div 3) * (i - 1) + ((arc % 3) * (i - 1)) \div 3) % Circle]

\* The interval scan of planet_house_number: for i = 11 down to 0 return the
\* first i + 1 whose interval matches, 1 when none does.
RECURSIVE ScanHouses(_, _, _)
ScanHouses(lon, cusps, i) ==
    IF i < 0 THEN 1
    ELSE LET c_start == cusps[i + 1]
             c_next  == cusps[((i + 1) % 12) + 1]
         IN  IF c_next > c_start
             THEN IF c_start <= lon /\ lon < c_next THEN i + 1
                  ELSE ScanHouses(lon, cusps, i - 1)
             ELSE IF lon >= c_start \/ lon < c_next THEN i + 1
                  ELSE ScanHouses(lon, cusps, i - 1)

\* is_whole_sign: every cusp i is within 0.1 deg after lagna_cusp + 30*i
IsWholeSign(cusps) ==
    \A i \in 1..11 :
        Abs((cusps[i + 1] - cusps[1] - i * 30 * Deg) % Circle) < Deg \div 10

\* planet_house_number(planet_sidereal_lon, cusps_sidereal)
planet_house_number(lon, cusps) ==
    IF Len(cusps) = 0 THEN 1
    ELSE IF IsWholeSign(cusps)
    THEN LET lagna_sign_idx  == PyInt(cusps[1], 30 * Deg) % 12
             planet_sign_idx == PyInt(lon, 30 * Deg) % 12
         IN  ((planet_sign_idx - lagna_sign_idx) % 12) + 1
    ELSE ScanHouses(lon, cusps, 11)

\* compute_midheaven(lst, obliquity): atan2(...) * RAD_TO_DEG % 360, given
\* the atan2 angle in micro-degrees
compute_midheaven(atan2_mc) == atan2_mc % Circle

\* houses.compute_ascendant(lst, latitude, obliquity), given the angle
\* atan2(y, x) in micro-degrees: always adds 180 degrees
houses_compute_ascendant(yx) == (yx.atan2 + 180 * Deg) % Circle

\* Faulty variant of placidus_cusps: when a solve raises, only the four
\* intermediate cusps are replaced by Equal House values.
placidus_cusps_mixed(asc, mc, solve) ==
    LET ic  == (mc + 180 * Deg) % Circle
        dsc == (asc + 180 * Deg) % Circle
        h(i) == IF solve.raised THEN (asc + 30 * Deg * (i - 1)) % Circle
                ELSE IF i = 2 THEN solve.h2 ELSE IF i = 3 THEN solve.h3
                ELSE IF i = 11 THEN solve.h11 ELSE solve.h12
    IN  << asc, h(2), h(3), ic, (ic + 30 * Deg) % Circle,
           (ic + 60 * Deg) % Circle, dsc, h(11), h(12), mc,
           (mc + 30 * Deg) % Circle, (mc + 60 * Deg) % Circle >>

\* placidus_cusps(lst, latitude, obliquity) after asc and mc have been
\* computed.  solve.raised says whether one of the four placidus_cusp solves
\* raised (math domain error); solve.h12 .. solve.h3 are what they return.
placidus_cusps(asc, mc, solve) ==
    LET ic  == (mc + 180 * Deg) % Circle
        dsc == (asc + 180 * Deg) % Circle
    IN  IF solve.raised THEN equal_house_cusps(asc)
        ELSE << asc, solve.h2, solve.h3, ic, (ic + 30 * Deg) % Circle,
                (ic + 60 * Deg) % Circle, dsc, solve.h11, solve.h12, mc,
                (mc + 30 * Deg) % Circle, (mc + 60 * Deg) % Circle >>

\* get_house_cusps(system, lst, latitude, obliquity): (cusps, asc, mc).
\* sky carries the values of the trigonometric expressions of (lst, latitude,
\* obliquity): the Ascendant's atan2(y, x), the Midheaven's atan2 and the
\* outcome of the Placidus solves.
get_house_cusps(system, sky) ==
    LET asc == houses_compute_ascendant(sky.asc_houses)
        mc  == compute_midheaven(sky.mc)
    IN  [cusps |-> IF system = "placidus" THEN placidus_cusps(asc, mc, sky.placidus)
                   ELSE IF system = "koch" THEN koch_cusps(asc, mc)
                   ELSE IF system = "equal" THEN equal_house_cusps(asc)
                   ELSE whole_sign_cusps(asc),
         asc |-> asc,
         mc |-> mc]

(***************************************************************************)
(* AYANAMSA and PLANET POSITIONS  (ephemeris.py)                           *)
(***************************************************************************)
J2000 == 2451545

\* T = (jd - J2000) / 36525.0, kept as the days (and minutes) since J2000.0:
\* T * 36525 = d + m/1440
JulianCenturies(jd) == [d |-> jd.d - J2000, m |-> jd.m]

\* system.lower() on the names the model uses
Lower(system) ==
    CASE system = "Lahiri" -> "lahiri"
      [] system = "LAHIRI" -> "lahiri"
      [] system = "KP" -> "kp"
      [] OTHER -> system

\* Faulty variant of AYANAMSA_TABLE: the rows of lahiri and raman are swapped.
AYANAMSA_TABLE_swapped ==
    [lahiri |-> [j2000 |-> 22460000, rate |-> 502388],
     raman  |-> [j2000 |-> 23853150, rate |-> 502882],
     kp     |-> [j2000 |-> 23863500, rate |-> 502388],
     fagan  |-> [j2000 |-> 24741700, rate |-> 502388]]

\* AYANAMSA_TABLE: j2000 in micro-degrees; rate in units of 1e-4 arcsec per
\* year (50.2882 / 3600.0 degrees per year)
AYANAMSA_TABLE ==
    [lahiri |-> [j2000 |-> 23853150, rate |-> 502882],
     raman  |-> [j2000 |-> 22460000, rate |-> 502388],
     kp     |-> [j2000 |-> 23863500, rate |-> 502388],
     fagan  |-> [j2000 |-> 24741700, rate |-> 502388]]

\* the denominator of the fraction of a micro-degree in an ayanamsa value:
\* one micro-degree of ayanamsa is 13149 rate units * days
AyanamsaDen == 13149 * MinutesPerDay

\* p["j2000"] + p["rate"] * T * 100 as an exact fraction of micro-degrees,
\* [u |-> whole micro-degrees, num |-> numerator of the rest over AyanamsaDen].
\* rate * T * 100 deg = (rate/36) micro-degrees per year * (T*36525/365.25)
\* years = rate * (d + m/1440) / 13149 micro-degrees; rate = 38*13149 + r
\* keeps the products within 32 bits.
AyanamsaAt(p, T) ==
    LET r == p.rate - 38 * 13149
        rest == ((r * T.d) % 13149) * MinutesPerDay + p.rate * T.m
    IN  [u |-> p.j2000 + 38 * T.d + FloorDiv(r * T.d, 13149)
                 + FloorDiv(rest, AyanamsaDen),
         num |-> rest % AyanamsaDen]

\* Faulty variant of get_ayanamsa_fine: an unknown name falls back to the
\* first row that is not lahiri.
get_ayanamsa_fine_raman(T, system) ==
    AyanamsaAt(IF Lower(system) \in DOMAIN AYANAMSA_TABLE
               THEN AYANAMSA_TABLE[Lower(system)]
               ELSE AYANAMSA_TABLE["raman"], T)

\* Faulty variant of get_ayanamsa_fine: the drift is subtracted,
\* p["j2000"] - p["rate"] * T * 100.
get_ayanamsa_fine_backward(T, system) ==
    AyanamsaAt(IF Lower(system) \in DOMAIN AYANAMSA_TABLE
               THEN AYANAMSA_TABLE[Lower(system)]
               ELSE AYANAMSA_TABLE["lahiri"], [d |-> 0 - T.d, m |-> 0 - T.m])

\* get_ayanamsa(T, system) at the full resolution of its value:
\* p = AYANAMSA_TABLE.get(system.lower(), AYANAMSA_TABLE["lahiri"])
get_ayanamsa_fine(T, system) ==
    AyanamsaAt(IF Lower(system) \in DOMAIN AYANAMSA_TABLE
               THEN AYANAMSA_TABLE[Lower(system)]
               ELSE AYANAMSA_TABLE["lahiri"], T)

\* get_ayanamsa(T, system) in whole micro-degrees
get_ayanamsa(T, system) == get_ayanamsa_fine(T, system).u

\* A longitude with one more decimal than the 6 the code rounds to:
\* [u |-> micro-degrees, t |-> tenths of a micro-degree, 0..9].
Whole(x) == [u |-> x, t |-> 0]

\* _n on such a value
N360Fine(a) == [u |-> a.u % Circle, t |-> a.t]

\* round(x, 6), in micro-degrees
Round6(a) == a.u + (IF a.t >= 5 THEN 1 ELSE 0)

\* round(x, 4) of a value in micro-degrees, in micro-degrees
Round4(x) == ((x + 50) \div 100) * 100

\* Faulty variant of tropical_to_sidereal: the ayanamsa name is not passed on
\* to get_ayanamsa, which then takes its default.
tropical_to_sidereal_default(lon, T, ayanamsa) ==
    N360Fine([u |-> lon.u - get_ayanamsa(T, "lahiri"), t |-> lon.t])

\* tropical_to_sidereal(lon, T, ayanamsa) = _n(lon - get_ayanamsa(T, ayanamsa))
tropical_to_sidereal(lon, T, ayanamsa) ==
    N360Fine([u |-> lon.u - get_ayanamsa(T, ayanamsa), t |-> lon.t])

PLANETS == << "Sun", "Moon", "Mercury", "Venus", "Mars", "Jupiter", "Saturn",
              "Rahu", "Ketu" >>

PlanetNames == {PLANETS[i] : i \in 1..Len(PLANETS)}

\* Faulty variant of _is_retrograde: the two name tests are swapped.
is_retrograde_swapped(planet, sky) ==
    IF planet \in {"Rahu", "Ketu"} THEN FALSE
    ELSE IF planet \in {"Sun", "Moon"} THEN TRUE
    ELSE (((sky.lon[planet].u + sky.motion) % Circle) - sky.lon[planet].u + Circle)
            % Circle > 180 * Deg

\* Faulty variant of _is_retrograde: the longitude at jd + 0.5 is computed
\* with the Sun left where it was at jd (the sun_geo_lon, sun_R passed in).
is_retrograde_fixed_sun(planet, sky) ==
    IF planet \in {"Rahu", "Ketu"} THEN TRUE
    ELSE IF planet \in {"Sun", "Moon"} THEN FALSE
    ELSE LET l0 == sky.lon[planet].u
             l1 == (sky.lon[planet].u + sky.motion_fixed_sun) % Circle
         IN  (l1 - l0 + Circle) % Circle > 180 * Deg

\* _is_retrograde(planet, jd, sun_geo_lon, sun_R): l0 is the planet's
\* geocentric longitude at jd, l1 the one at jd + 0.5 (sky.motion later),
\* each computed from the Sun's longitude and radius at its own epoch.
is_retrograde(planet, sky) ==
    IF planet \in {"Rahu", "Ketu"} THEN TRUE
    ELSE IF planet \in {"Sun", "Moon"} THEN FALSE
    ELSE LET l0 == sky.lon[planet].u
             l1 == (sky.lon[planet].u + sky.motion) % Circle
         IN  (l1 - l0 + Circle) % Circle > 180 * Deg

\* Faulty variant of TropicalLongitude: Ketu is not placed opposite Rahu.
TropicalLongitude_independent(planet, sky) ==
    IF planet = "Ketu" THEN N360Fine([u |-> sky.lon["Rahu"].u + 179 * Deg, t |-> sky.lon["Rahu"].t])
    ELSE sky.lon[planet]

\* The branch of compute_all_positions (and compute_planet_position) that
\* picks the tropical longitude: sky.lon holds what sun_longitude,
\* moon_longitude, rahu_longitude and planet_geocentric return (already in
\* [0, 360)); Ketu is _n(rahu_longitude(T) + 180.0).
TropicalLongitude(planet, sky) ==
    IF planet = "Ketu"
    THEN N360Fine([u |-> sky.lon["Rahu"].u + 180 * Deg, t |-> sky.lon["Rahu"].t])
    ELSE sky.lon[planet]

\* 3 * sid, in whole micro-degrees: sid / (360.0/27) = 3 * sid / 40 and
\* (sid % (360.0/27)) / (360.0/27/4) = ((3 * sid) % 40) / 10
Thirds(sid) == 3 * sid.u + ((3 * sid.t) \div 10)

\* The PlanetPosition built in the loop body of compute_all_positions:
\* sign_idx = int(sid / 30) % 12, deg = sid % 30,
\* nak_idx = int(sid / (360.0/27)) % 27,
\* nak_pada = int((sid % (360.0/27)) / (360.0/27/4)) + 1.
PlanetPositionOf(planet, T, ayanamsa, sky) ==
    LET trop == TropicalLongitude(planet, sky)
        sid  == tropical_to_sidereal(trop, T, ayanamsa)
    IN  [name |-> planet,
         tropical_longitude |-> Round6(trop),
         sidereal_longitude |-> Round6(sid),
         sign_index |-> PyInt(sid.u, 30 * Deg) % 12,
         degree_in_sign |-> Round6([u |-> sid.u % (30 * Deg), t |-> sid.t]),
         nakshatra_index |-> (Thirds(sid) \div (40 * Deg)) % 27,
         nakshatra_pada |-> ((Thirds(sid) % (40 * Deg)) \div (10 * Deg)) + 1,
         is_retrograde |-> is_retrograde(planet, sky)]

\* ephemeris.compute_ascendant(jd, lat, lon, dpsi, obl), given atan2(y, x) in
\* micro-degrees and the sign of x: asc = _n(atan2); if x < 0: _n(asc + 180)
ephemeris_compute_ascendant(yx) ==
    LET asc == yx.atan2 % Circle
    IN  IF yx.x_negative THEN (asc + 180 * Deg) % Circle ELSE asc

\* compute_all_positions(jd, lat, lon, ayanamsa): (positions, asc_trop, T)
compute_all_positions(jd, ayanamsa, sky) ==
    LET T == JulianCenturies(jd)
    IN  [positions |-> [p \in PlanetNames |-> PlanetPositionOf(p, T, ayanamsa, sky)],
         asc_trop |-> ephemeris_compute_ascendant(sky.asc_ephemeris),
         T |-> T]

\* get_all_planets(jd, ayanamsa): compute_planet_position for every planet,
\* the same computation as the loop body of compute_all_positions
get_all_planets(jd, ayanamsa, sky) ==
    LET T == JulianCenturies(jd)
    IN  [p \in PlanetNames |-> PlanetPositionOf(p, T, ayanamsa, sky)]

(***************************************************************************)
(* generate_kundali  (tools/kundali.py)                                    *)
(***************************************************************************)
\* Faulty variant of UtcCivil: the rollback into the previous month takes
\* February as 28 days in every year.
UtcCivil_noleap(year, month, day, hour, minute, timezone_offset) ==
    LET utc == hour * 60 + minute - timezone_offset
    IN  IF utc < 0
        THEN IF day - 1 = 0
             THEN LET utc_month == IF month - 1 = 0 THEN 12 ELSE month - 1
                      utc_year  == IF month - 1 = 0 THEN year - 1 ELSE year
                  IN  [year |-> utc_year, month |-> utc_month,
                       day |-> IF utc_month = 2 THEN 28
                               ELSE DaysInMonth(utc_year, utc_month),
                       hourMin |-> utc + MinutesPerDay]
             ELSE [year |-> year, month |-> month, day |-> day - 1,
                   hourMin |-> utc + MinutesPerDay]
        ELSE IF utc >= MinutesPerDay
        THEN [year |-> year, month |-> month, day |-> day + 1,
              hourMin |-> utc - MinutesPerDay]
        ELSE [year |-> year, month |-> month, day |-> day, hourMin |-> utc]

\* The local -> UTC conversion with its day rollover: times in minutes,
\* timezone_offset in minutes east of UTC.
UtcCivil(year, month, day, hour, minute, timezone_offset) ==
    LET utc == hour * 60 + minute - timezone_offset
    IN  IF utc < 0
        THEN IF day - 1 = 0
             THEN LET utc_month == IF month - 1 = 0 THEN 12 ELSE month - 1
                      utc_year  == IF month - 1 = 0 THEN year - 1 ELSE year
                  IN  [year |-> utc_year, month |-> utc_month,
                       day |-> DaysInMonth(utc_year, utc_month),
                       hourMin |-> utc + MinutesPerDay]
             ELSE [year |-> year, month |-> month, day |-> day - 1,
                   hourMin |-> utc + MinutesPerDay]
        ELSE IF utc >= MinutesPerDay
        THEN [year |-> year, month |-> month, day |-> day + 1,
              hourMin |-> utc - MinutesPerDay]
        ELSE [year |-> year, month |-> month, day |-> day, hourMin |-> utc]

\* _sign_from_longitude(lon): the index int(lon / 30) % 12 into SIGNS
sign_from_longitude(lon) == PyInt(lon, 30 * Deg) % 12

\* generate_kundali(year, month, day, hour, minute, second, timezone_offset,
\* latitude, longitude, house_system, ayanamsa, unknown_birth_time).
\* a.sky carries the values of the trigonometric series at (jd, latitude,
\* longitude).  Signs are reported by their index into SIGNS.
generate_kundali(a) ==
    LET utc == UtcCivil(a.year, a.month, a.day, a.hour, a.minute, a.timezone_offset)
        jd_civil == gregorian_to_jd(utc.year, utc.month, utc.day, utc.hourMin)
        T == JulianCenturies(jd_civil)
        jd == IF a.unknown_birth_time
              THEN gregorian_to_jd(a.year, a.month, a.day, 720 - a.timezone_offset)
              ELSE jd_civil
        raw == compute_all_positions(jd, a.ayanamsa, a.sky)
        planets_raw == raw.positions
        hc == get_house_cusps(a.house_system, a.sky)
        asc_tropical == raw.asc_trop
        cusps_sidereal ==
            [i \in 1..Len(hc.cusps) |->
                tropical_to_sidereal(Whole(hc.cusps[i]), T, a.ayanamsa).u]
        asc_sidereal == tropical_to_sidereal(Whole(asc_tropical), T, a.ayanamsa).u
        mc_sidereal  == tropical_to_sidereal(Whole(hc.mc), T, a.ayanamsa).u
    IN  [meta |-> [julian_day |-> jd, julian_centuries_j2000 |-> T],
         lagna |-> [sign |-> sign_from_longitude(asc_sidereal),
                    sidereal_longitude |-> Round4(asc_sidereal)],
         midheaven |-> [sign |-> sign_from_longitude(mc_sidereal),
                        sidereal_longitude |-> Round4(mc_sidereal)],
         planets |->
            [p \in PlanetNames |->
                [sidereal_longitude |-> Round4(planets_raw[p].sidereal_longitude),
                 tropical_longitude |-> Round4(planets_raw[p].tropical_longitude),
                 sign |-> planets_raw[p].sign_index,
                 degree_in_sign |-> Round4(planets_raw[p].degree_in_sign),
                 house |-> planet_house_number(planets_raw[p].sidereal_longitude,
                                               cusps_sidereal),
                 is_retrograde |-> planets_raw[p].is_retrograde]],
         houses |->
            [i \in 1..Len(cusps_sidereal) |->
                [house |-> i,
                 sidereal_longitude |-> Round4(cusps_sidereal[i]),
                 sign |-> sign_from_longitude(cusps_sidereal[i])]]]

(***************************************************************************)
(* The sky: what the trigonometric series evaluate to for the inputs of a  *)
(* call.  TLA+ has no sine; the series' values are inputs of the model.    *)
(***************************************************************************)
\* the offset of each body from the Sun in a sample sky
Spread ==
    [Sun |-> 0, Moon |-> 97 * Deg + 595700, Mercury |-> 341 * Deg + 347200,
     Venus |-> 324 * Deg + 632400, Mars |-> 287 * Deg + 86700,
     Jupiter |-> 22 * Deg + 492200, Saturn |-> 210 * Deg + 321900]

\* longitudes of the Sun: the start of the zodiac, the last fraction of a
\* micro-degree of a sign and of the zodiac, the last hundredth of a
\* milli-degree of the zodiac, and two in the middle of a sign
SunSamples ==
    { [u |-> 0, t |-> 0], [u |-> 29999999, t |-> 6], [u |-> 83853200, t |-> 4],
      [u |-> 123456789, t |-> 3], [u |-> 359999960, t |-> 0],
      [u |-> 359999999, t |-> 6] }

RahuSamples ==
    { [u |-> 179999999, t |-> 6], [u |-> 311010100, t |-> 3] }

\* half-day motions of the five planets: backward and forward
MotionSamples == {0 - 50000, 500000}

\* atan2(y, x) of the Ascendant formula, in (-180, 180] degrees
AscAtan2Samples ==
    {0 - 135 * Deg, 0 - 44 * Deg - 23456, 65 * Deg + 431400, 90 * Deg,
     126 * Deg + 19500, 180 * Deg}

\* the difference between the local sidereal times of ephemeris.py and of
\* houses.py (their equations of the equinoxes differ), as it shows in the
\* atan2 angle
SkewSamples == {0, 1700}

\* x < 0 exactly when atan2(y, x) is beyond +-90 degrees
YX(atan2) == [atan2 |-> atan2, x_negative |-> atan2 > 90 * Deg \/ atan2 < 0 - 90 * Deg]

\* atan2 returns an angle in (-180, 180] degrees
Atan2Range(x) ==
    LET n == x % Circle
    IN  IF n > 180 * Deg THEN n - Circle ELSE n

\* The geometry of (lst, latitude, obliquity) as the house functions see it:
\* arc is Ascendant - Midheaven; h2, h3 are what the two below-horizon
\* Placidus solves return, counted from the Ascendant, and h11, h12 what the
\* two above-horizon solves return, counted from the Midheaven; raised says
\* that a solve ran into acos of a value beyond +-1.  The values are those
\* of obliquity 23.44 with (lst, latitude) = (100, 28.6139), (310, 51.5) and
\* (30, 70), (170, -62).  unconverged says that a solve (here the one of
\* house 12) ran its 20 iterations without the step falling below 1e-10 rad:
\* placidus_cusp then returns the longitude of its last estimate.
GeometrySamples ==
    { [arc |-> 89 * Deg + 619500, raised |-> FALSE, unconverged |-> FALSE,
       h2 |-> 215 * Deg + 7900, h3 |-> 244 * Deg + 220300,
       h11 |-> 29 * Deg + 658100, h12 |-> 59 * Deg + 223700],
      [arc |-> 124 * Deg + 903300, raised |-> FALSE, unconverged |-> FALSE,
       h2 |-> 158 * Deg + 426700, h3 |-> 196 * Deg + 407500,
       h11 |-> 36 * Deg + 597700, h12 |-> 59 * Deg + 297300],
      [arc |-> 118 * Deg + 651400, raised |-> TRUE, unconverged |-> FALSE,
       h2 |-> 0, h3 |-> 0, h11 |-> 0, h12 |-> 0],
      [arc |-> 131 * Deg + 753900, raised |-> FALSE, unconverged |-> TRUE,
       h2 |-> 133 * Deg + 408200, h3 |-> 188 * Deg + 496100,
       h11 |-> 25 * Deg + 624900, h12 |-> 42 * Deg + 23100] }

\* the outcome of the four Placidus solves for an Ascendant and a Midheaven
PlacidusSolve(asc, mc, g) ==
    [raised |-> g.raised, unconverged |-> g.unconverged,
     h2  |-> (asc + g.h2) % Circle,  h3  |-> (asc + g.h3) % Circle,
     h11 |-> (mc + g.h11) % Circle,  h12 |-> (mc + g.h12) % Circle]

\* the sky of a call: the longitudes of the bodies, the atan2 angle of the
\* Ascendant as houses.py and as ephemeris.py compute it, the atan2 angle of
\* the Midheaven and the Placidus solves
Sky(sun, rahu, motion, asc_atan2, skew, g) ==
    LET asc == houses_compute_ascendant(YX(asc_atan2))
        mc_atan2 == Atan2Range(asc - g.arc)
    IN  [lon |-> [b \in PlanetNames \ {"Ketu"} |->
                     IF b = "Rahu" THEN rahu
                     ELSE N360Fine([u |-> sun.u + Spread[b], t |-> sun.t])],
         motion |-> motion,
         asc_houses |-> YX(asc_atan2),
         asc_ephemeris |-> YX(asc_atan2 + skew),
         mc |-> mc_atan2,
         placidus |-> PlacidusSolve(asc, compute_midheaven(mc_atan2), g)]

ChartAyanamsaSamples == {"lahiri", "KP"}

(***************************************************************************)
(* Specification of the chart: pick a birth, a configuration and a sky;    *)
(* then generate_kundali, or a direct call of compute_all_positions or of  *)
(* get_all_planets with the Julian Day of that birth.                      *)
(***************************************************************************)
BirthSamples ==
    { [year |-> 1990, month |-> 6, day |-> 15, hour |-> 10, minute |-> 30,
       timezone_offset |-> 330],
      [year |-> 2000, month |-> 1, day |-> 1, hour |-> 12, minute |-> 0,
       timezone_offset |-> 0],
      [year |-> 2024, month |-> 3, day |-> 1, hour |-> 2, minute |-> 0,
       timezone_offset |-> 330] }

HouseSystemSamples == {"whole_sign", "equal", "placidus", "koch"}

\* a house-system name that is none of the four
UnknownHouseSystemSamples == {"porphyry"}

\* the Julian Day of a birth: local time to UTC, then gregorian_to_jd
JdOfBirth(b) ==
    LET utc == UtcCivil(b.year, b.month, b.day, b.hour, b.minute, b.timezone_offset)
    IN  gregorian_to_jd(utc.year, utc.month, utc.day, utc.hourMin)

\* the tropical longitudes of the Sun for a birth: SunSamples, and the one
\* whose sidereal longitude is in the last fraction of a micro-degree of a
\* sign
SunSamplesFor(b, ay) ==
    SunSamples \cup
      { N360Fine([u |-> 209999999 + get_ayanamsa(JulianCenturies(JdOfBirth(b)), ay),
                  t |-> 6]) }

InitChart ==
    /\ call = "input"
    /\ \E b \in BirthSamples, unknown \in BOOLEAN,
          hs \in HouseSystemSamples \cup UnknownHouseSystemSamples,
          ay \in ChartAyanamsaSamples, rahu \in RahuSamples,
          motion \in MotionSamples, asc \in AscAtan2Samples, skew \in SkewSamples,
          g \in GeometrySamples :
          \E sun \in SunSamplesFor(b, ay) :
             /\ unknown => b.year = 1990
             /\ hs \in {"whole_sign", "equal"} => g.arc < 90 * Deg
             /\ hs \in UnknownHouseSystemSamples =>
                    (b.year = 2000 /\ motion > 0 /\ skew = 0 /\ ~g.raised)
             /\ args = [year |-> b.year, month |-> b.month, day |-> b.day,
                        hour |-> b.hour, minute |-> b.minute,
                        timezone_offset |-> b.timezone_offset,
                        house_system |-> hs, ayanamsa |-> ay,
                        unknown_birth_time |-> unknown,
                        sky |-> Sky(sun, rahu, motion, asc, skew, g)]
    /\ ret = NoValue

GenerateKundali ==
    /\ call = "input"
    /\ call' = "generate_kundali"
    /\ ret' = generate_kundali(args)
    /\ UNCHANGED args

\* the Julian Day of the birth in args
BirthJd == JdOfBirth(args)

ComputeAllPositions ==
    /\ call = "input"
    /\ call' = "compute_all_positions"
    /\ ret' = compute_all_positions(BirthJd, args.ayanamsa, args.sky)
    /\ UNCHANGED args

GetAllPlanets ==
    /\ call = "input"
    /\ call' = "get_all_planets"
    /\ ret' = [positions |-> get_all_planets(BirthJd, args.ayanamsa, args.sky)]
    /\ UNCHANGED args

\* get_house_cusps called with the house system and the geometry of the birth
GetHouseCusps ==
    /\ call = "input"
    /\ call' = "get_house_cusps"
    /\ ret' = get_house_cusps(args.house_system, args.sky)
    /\ UNCHANGED args

NextChart == GenerateKundali \/ ComputeAllPositions \/ GetAllPlanets \/ GetHouseCusps

SpecChart == InitChart /\ [][NextChart]_vars

InCircle(lon) == 0 <= lon /\ lon < Circle

\* C3: for each of the 9 bodies, the tropical_longitude and the
\* sidereal_longitude reported by compute_all_positions (rounded to 6
\* decimals) and by generate_kundali (rounded to 4 decimals) satisfy
\* 0 <= longitude < 360; 360 is never reported.
C3_LongitudesBelow360 ==
    /\ call = "compute_all_positions" =>
          \A p \in PlanetNames :
              /\ InCircle(ret.positions[p].tropical_longitude)
              /\ InCircle(ret.positions[p].sidereal_longitude)
    /\ call = "generate_kundali" =>
          \A p \in PlanetNames :
              /\ InCircle(ret.planets[p].tropical_longitude)
              /\ InCircle(ret.planets[p].sidereal_longitude)

C5_RetrogradeByConvention ==
    /\ call \in {"compute_all_positions", "get_all_planets"} =>
          /\ ~ret.positions["Sun"].is_retrograde
          /\ ~ret.positions["Moon"].is_retrograde
          /\ ret.positions["Rahu"].is_retrograde
          /\ ret.positions["Ketu"].is_retrograde
    /\ call = "generate_kundali" =>
          /\ ~ret.planets["Sun"].is_retrograde
          /\ ~ret.planets["Moon"].is_retrograde
          /\ ret.planets["Rahu"].is_retrograde
          /\ ret.planets["Ketu"].is_retrograde

\* positions computed while the five planets move backward: they are
\* retrograde, the Sun and the Moon are not
C5_Witness ==
    /\ call = "compute_all_positions"
    /\ args.sky.motion < 0
    /\ ret.positions["Mars"].is_retrograde
    /\ ~ret.positions["Sun"].is_retrograde
    /\ ret.positions["Ketu"].is_retrograde

\* C7: in every chart generated with house_system = 'whole_sign', each
\* planet's house is (planet sign index - lagna sign index) mod 12 + 1, the
\* lagna sign being the one reported in chart['lagna'].
C7_WholeSignHouseFromLagna ==
    (call = "generate_kundali" /\ args.house_system = "whole_sign") =>
        \A p \in PlanetNames :
            ret.planets[p].house
                = ((ret.planets[p].sign - ret.lagna.sign) % 12) + 1

\* C8: in every chart generated with house_system = 'equal', the sidereal
\* longitude of house 1 equals the sidereal longitude reported as the lagna.
C8_EqualHouseOneIsLagna ==
    (call = "generate_kundali" /\ args.house_system = "equal") =>
        ret.houses[1].sidereal_longitude = ret.lagna.sidereal_longitude

\* the forward difference from the cusp of house i to the next cusp
ForwardDifference(cusps, i) == (cusps[(i % 12) + 1] - cusps[i]) % Circle

\* the sum of f[1] .. f[n]
RECURSIVE SumTo(_, _)
SumTo(f, n) == IF n = 0 THEN 0 ELSE f[n] + SumTo(f, n - 1)

\* the twelve forward differences sum to one turn; whole degrees and
\* micro-degrees are summed apart to stay within 32 bits
OneTurn(cusps) ==
    LET whole == SumTo([i \in 1..12 |-> ForwardDifference(cusps, i) \div Deg], 12)
        micro == SumTo([i \in 1..12 |-> ForwardDifference(cusps, i) % Deg], 12)
    IN  whole + (micro \div Deg) = 360 /\ micro % Deg = 0

\* C11: for every house system (whole_sign, equal, placidus, koch) and every
\* Ascendant/Midheaven pair, the 12 cusps returned by get_house_cusps advance
\* strictly forward in house order 1, 2, ..., 12 and back to 1: every forward
\* difference is positive and the twelve differences modulo 360 sum to
\* exactly 360.
C11_CuspsAdvanceOneTurn ==
    call = "get_house_cusps" =>
        /\ Len(ret.cusps) = 12
        /\ \A i \in 1..12 : ForwardDifference(ret.cusps, i) > 0
        /\ OneTurn(ret.cusps)

\* C13: get_house_cusps returns 12 cusps for each of the four house systems,
\* also when a Placidus solve raises (high latitudes); when one of the four
\* Placidus solves raises, the cusps are exactly the 12 Equal House cusps of
\* the Ascendant, Ascendant + 30 * (i - 1), not a mixture of Placidus and
\* Equal values.
C13_PlacidusFallsBackToEqual ==
    call = "get_house_cusps" =>
        /\ Len(ret.cusps) = 12
        /\ (args.house_system = "placidus" /\ args.sky.placidus.raised) =>
               \A i \in 1..12 : ret.cusps[i] = (ret.asc + 30 * Deg * (i - 1)) % Circle

\* a Placidus solve has raised for an Ascendant of 45 degrees: the cusps are
\* 45, 75, 105, 135, ... and house 4 is not the IC
C13_Witness ==
    /\ call = "get_house_cusps"
    /\ args.house_system = "placidus"
    /\ args.sky.placidus.raised
    /\ ret.asc = 45 * Deg
    /\ ret.cusps[2] = 75 * Deg
    /\ ret.cusps[4] = 135 * Deg
    /\ ret.cusps[4] # (ret.mc + 180 * Deg) % Circle

\* C14: a house-system name outside {whole_sign, equal, placidus, koch} is an
\* input-validation error: generate_kundali produces no chart for such a name
\* and get_house_cusps does not lay out Whole Sign cusps for it.
C14_UnknownHouseSystemRejected ==
    args.house_system \notin HouseSystemSamples =>
        /\ call = "generate_kundali" => "houses" \notin DOMAIN ret
        /\ call = "get_house_cusps" =>
               ("cusps" \in DOMAIN ret => ret.cusps # whole_sign_cusps(ret.asc))

\* C19: for every sidereal longitude s in [0,360) the attributes of the
\* PlanetPosition derived from it are in range and consistent: sign_index =
\* floor(s/30) is in 0..11, degree_in_sign = s - 30*sign_index (as reported,
\* to 6 decimals) is in [0,30), nakshatra_index = floor(s/(360/27)) is in
\* 0..26, nakshatra_pada is in 1..4, and 4*nakshatra_index + (nakshatra_pada
\* - 1) = floor(s/(360/108)).
C19_DerivedAttributes ==
    call \in {"compute_all_positions", "get_all_planets"} =>
        \A p \in PlanetNames :
            LET pos == ret.positions[p]
                s == tropical_to_sidereal(TropicalLongitude(p, args.sky),
                                          JulianCenturies(BirthJd), args.ayanamsa)
            IN  /\ pos.sign_index = s.u \div (30 * Deg)
                /\ pos.sign_index \in 0..11
                /\ pos.degree_in_sign
                      = Round6([u |-> s.u - 30 * Deg * pos.sign_index, t |-> s.t])
                /\ 0 <= pos.degree_in_sign /\ pos.degree_in_sign < 30 * Deg
                /\ pos.nakshatra_index = Thirds(s) \div (40 * Deg)
                /\ pos.nakshatra_index \in 0..26
                /\ pos.nakshatra_pada \in 1..4
                /\ 4 * pos.nakshatra_index + (pos.nakshatra_pada - 1)
                      = Thirds(s) \div (10 * Deg)

\* C23: the house module's compute_ascendant(lst, latitude, obliquity)
\* resolves the 180-degree ambiguity by the sign of the x-component: it adds
\* 180 degrees to the atan2(y, x) angle if and only if x < 0, and never
\* applies the offset unconditionally.
C23_AscendantBySignOfX ==
    call = "get_house_cusps" =>
        ret.asc = IF args.sky.asc_houses.x_negative
                  THEN N360(args.sky.asc_houses.atan2 + 180 * Deg)
                  ELSE N360(args.sky.asc_houses.atan2)

\* C24: in every chart produced by generate_kundali, including with
\* unknown_birth_time=True, the Julian century T used for obliquity and for
\* the sidereal conversion of cusps, Ascendant and Midheaven, and reported
\* as meta.julian_centuries_j2000, equals (jd - 2451545.0)/36525 for the
\* same jd that is passed to the planet, sidereal-time and panchang
\* computations and reported as meta.julian_day.
C24_CenturiesOfReportedJd ==
    call = "generate_kundali" =>
        /\ ret.meta.julian_centuries_j2000.d = ret.meta.julian_day.d - J2000
        /\ ret.meta.julian_centuries_j2000.m = ret.meta.julian_day.m

\* C26: if a Placidus intermediate-cusp iteration has not reached the 1e-10
\* rad tolerance on right ascension after its 20 iterations, placidus_cusps
\* returns the Equal House cusps of the Ascendant instead of cusps built
\* from the unconverged estimate.
C26_UnconvergedPlacidusFallsBack ==
    (call = "get_house_cusps" /\ args.house_system = "placidus"
        /\ args.sky.placidus.unconverged) =>
        ret.cusps = equal_house_cusps(ret.asc)

(***************************************************************************)
(* Specification of the birth instant: generate_kundali for local dates at *)
(* the ends and starts of months and years, times around midnight and      *)
(* noon, and timezone offsets from -12 h to +14 h, under one sky.          *)
(***************************************************************************)
BirthYearSamples == {MinYear, 1900, 1999, 2000, 2023, 2024, MaxYear}

BirthDaySamples ==
    { <<1, 1>>, <<1, 31>>, <<2, 1>>, <<2, 28>>, <<2, 29>>, <<3, 1>>, <<4, 30>>,
      <<6, 15>>, <<7, 31>>, <<12, 1>>, <<12, 31>> }

\* minutes of the local day
BirthTimeSamples == {0, 30, 11 * 60 + 59, 12 * 60, 23 * 60 + 59}

\* minutes east of UTC: -12 h, -5 h, 0, +5:30, +5:45, +14 h
TimezoneSamples == {0 - 720, 0 - 300, 0, 330, 345, 840}

BirthSky ==
    Sky([u |-> 83853200, t |-> 4], [u |-> 311010100, t |-> 3], 500000,
        65 * Deg + 431400, 0, CHOOSE g \in GeometrySamples : g.arc < 90 * Deg)

InitBirth ==
    /\ call = "input"
    /\ \E y \in BirthYearSamples, md \in BirthDaySamples, t \in BirthTimeSamples,
          tz \in TimezoneSamples, unknown \in BOOLEAN :
          /\ md[2] <= DaysInMonth(y, md[1])
          /\ args = [year |-> y, month |-> md[1], day |-> md[2],
                     hour |-> t \div 60, minute |-> t % 60,
                     timezone_offset |-> tz,
                     house_system |-> "whole_sign", ayanamsa |-> "lahiri",
                     unknown_birth_time |-> unknown,
                     sky |-> BirthSky]
    /\ ret = NoValue

NextBirth == GenerateKundali

SpecBirth == InitBirth /\ [][NextBirth]_vars

\* the lengths of the months of a common year
MonthLengths == << 31, 28, 31, 30, 31, 30, 31, 31, 30, 31, 30, 31 >>

MonthLength(y, mo) ==
    IF mo = 2 /\ (y % 400 = 0 \/ (y % 4 = 0 /\ y % 100 # 0)) THEN 29
    ELSE MonthLengths[mo]

\* the calendar date after and before a calendar date
NextDate(d) ==
    IF d.day < MonthLength(d.year, d.month)
    THEN [year |-> d.year, month |-> d.month, day |-> d.day + 1]
    ELSE IF d.month < 12 THEN [year |-> d.year, month |-> d.month + 1, day |-> 1]
    ELSE [year |-> d.year + 1, month |-> 1, day |-> 1]

PrevDate(d) ==
    IF d.day > 1 THEN [year |-> d.year, month |-> d.month, day |-> d.day - 1]
    ELSE IF d.month > 1
    THEN [year |-> d.year, month |-> d.month - 1,
          day |-> MonthLength(d.year, d.month - 1)]
    ELSE [year |-> d.year - 1, month |-> 12, day |-> 31]

\* the UTC calendar date and minute of the day of the instant the chart of
\* args is for: the given local time, or local noon when the birth time is
\* unknown
TrueUtc ==
    LET local == [year |-> args.year, month |-> args.month, day |-> args.day]
        utc == (IF args.unknown_birth_time THEN 720
                ELSE args.hour * 60 + args.minute) - args.timezone_offset
    IN  IF utc < 0 THEN [date |-> PrevDate(local), minute |-> utc + MinutesPerDay]
        ELSE IF utc >= MinutesPerDay
        THEN [date |-> NextDate(local), minute |-> utc - MinutesPerDay]
        ELSE [date |-> local, minute |-> utc]

\* C28: for every valid local civil date and time and every timezone_offset
\* in [-12, +14] hours, the Julian Day that generate_kundali computes equals
\* gregorian_to_jd of the true UTC calendar date and UTC hour of that
\* instant, including when the UTC instant falls on the previous or the
\* next calendar day across a month end, 28/29 February or a year boundary.
C28_JdOfTrueUtcDate ==
    call = "generate_kundali" =>
        /\ TrueUtc.minute \in 0..(MinutesPerDay - 1)
        /\ ret.meta.julian_day
              = gregorian_to_jd(TrueUtc.date.year, TrueUtc.date.month,
                                TrueUtc.date.day, TrueUtc.minute)

\* 23:59 on 31 December 2023, five hours west of Greenwich: 04:59 UTC on
\* 1 January 2024
C28_Witness ==
    /\ call = "generate_kundali"
    /\ args.year = 2023 /\ args.month = 12 /\ args.day = 31
    /\ args.hour = 23 /\ args.minute = 59
    /\ args.timezone_offset = 0 - 300
    /\ ~args.unknown_birth_time
    /\ TrueUtc.date = [year |-> 2024, month |-> 1, day |-> 1]
    /\ ret.meta.julian_day = gregorian_to_jd(2024, 1, 1, 299)

(***************************************************************************)
(* Specification of the retrograde test: pick a body, its geocentric       *)
(* longitude at jd and its change over the next half day, then             *)
(* _is_retrograde.  motion is the change with the Sun recomputed at        *)
(* jd + 0.5, motion_fixed_sun the change with the Sun held at jd (always   *)
(* forward: the backward drift comes from the Earth's own motion).         *)
(***************************************************************************)
RetroLonSamples == {0, 123 * Deg + 456789, 180 * Deg, Circle - 1}

\* no change, one micro-degree and realistic half-day motions either way,
\* and half a turn exactly, one micro-degree less and one more
RetroMotionSamples ==
    {0, 1, 0 - 1, 0 - 50000, 500000, 180 * Deg - 1, 180 * Deg, 180 * Deg + 1,
     0 - 180 * Deg, 1 - 180 * Deg}

FixedSunMotionSamples == {1, 20000}

InitRetrograde ==
    /\ call = "input"
    /\ \E planet \in PlanetNames, l0 \in RetroLonSamples,
          motion \in RetroMotionSamples, fixed \in FixedSunMotionSamples :
          args = [planet |-> planet,
                  sky |-> [lon |-> [b \in PlanetNames |-> [u |-> l0, t |-> 0]],
                           motion |-> motion,
                           motion_fixed_sun |-> fixed]]
    /\ ret = NoValue

IsRetrograde ==
    /\ call = "input"
    /\ call' = "is_retrograde"
    /\ ret' = [retro |-> is_retrograde(args.planet, args.sky)]
    /\ UNCHANGED args

NextRetrograde == IsRetrograde

SpecRetrograde == InitRetrograde /\ [][NextRetrograde]_vars

\* (L(JD + 0.5) - L(JD)) mod 360 of the call, both longitudes in [0, 360)
\* and the Sun recomputed, written without the modulo of the difference
HalfDayDifference ==
    LET l0 == args.sky.lon[args.planet].u
        l1 == N360(l0 + args.sky.motion)
    IN  IF l1 >= l0 THEN l1 - l0 ELSE l1 - l0 + Circle

\* C25: for each of Mercury, Venus, Mars, Jupiter and Saturn, _is_retrograde
\* returns true if and only if (L(JD + 0.5) - L(JD)) mod 360 is strictly
\* greater than 180, where each geocentric longitude L is computed with the
\* Sun's position recomputed at its own epoch; a difference of exactly 180
\* degrees, or of 0, is classified non-retrograde.
C25_RetrogradeIffBeyondHalfTurn ==
    (call = "is_retrograde"
        /\ args.planet \in {"Mercury", "Venus", "Mars", "Jupiter", "Saturn"}) =>
        /\ ret.retro <=> HalfDayDifference > 180 * Deg
        /\ HalfDayDifference = 180 * Deg => ~ret.retro
        /\ HalfDayDifference = 0 => ~ret.retro

\* Mars drifting back by 0.05 degrees across the start of the zodiac:
\* retrograde, although it would be direct with the Sun held in place
C25_Witness ==
    /\ call = "is_retrograde"
    /\ args.planet = "Mars"
    /\ args.sky.lon["Mars"].u = 0
    /\ args.sky.motion = 0 - 50000
    /\ args.sky.motion_fixed_sun = 20000
    /\ HalfDayDifference = Circle - 50000
    /\ ret.retro

(***************************************************************************)
(* Specification of the house functions: pick an Ascendant and a           *)
(* Midheaven, lay out the cusps with one of the house systems, then place  *)
(* a planet with planet_house_number.                                      *)
(***************************************************************************)
\* every sign: its first degree, one micro-degree in, its middle and its
\* last micro-degree
AscSamples ==
    {30 * Deg * k + o : k \in 0..11, o \in {0, 1, 15 * Deg, 30 * Deg - 1}}

\* Ascendant - Midheaven arcs for which the Koch cusps advance less than one
\* turn over the twelve houses
KochArcSamples == {60 * Deg, 75 * Deg + 1, 96 * Deg}

\* longitudes on a cusp, just before it and just after it, and the two ends
\* of [0, 360)
LonSamples(cusps) ==
    {(cusps[i] + o) % Circle : i \in 1..Len(cusps), o \in {-1, 0, 1}}
        \cup {0, Circle - 1}

InitHouses ==
    /\ call = "input"
    /\ \E a \in AscSamples, arc \in KochArcSamples :
          args = [ascendant |-> a, mc |-> (a - arc) % Circle]
    /\ ret = NoValue

WholeSignCusps ==
    /\ call = "input"
    /\ call' = "whole_sign_cusps"
    /\ ret' = [cusps |-> whole_sign_cusps(args.ascendant)]
    /\ UNCHANGED args

EqualHouseCusps ==
    /\ call = "input"
    /\ call' = "equal_house_cusps"
    /\ ret' = [cusps |-> equal_house_cusps(args.ascendant)]
    /\ UNCHANGED args

KochCusps ==
    /\ call = "input"
    /\ call' = "koch_cusps"
    /\ ret' = [cusps |-> koch_cusps(args.ascendant, args.mc)]
    /\ UNCHANGED args

PlanetHouseNumber ==
    /\ call \in {"whole_sign_cusps", "equal_house_cusps", "koch_cusps"}
    /\ \E lon \in LonSamples(ret.cusps) :
          /\ args' = [lon |-> lon, cusps |-> ret.cusps, system |-> call]
          /\ ret' = [house |-> planet_house_number(lon, ret.cusps)]
    /\ call' = "planet_house_number"

NextHouses == WholeSignCusps \/ EqualHouseCusps \/ KochCusps \/ PlanetHouseNumber

SpecHouses == InitHouses /\ [][NextHouses]_vars

\* lon lies in the closed-open interval [cusp_h, cusp_{h+1}) of house h,
\* wrapping through 360/0
InHouse(lon, cusps, h) ==
    LET c_start == cusps[h]
        c_next  == cusps[(h % 12) + 1]
    IN  IF c_start < c_next
        THEN c_start <= lon /\ lon < c_next
        ELSE lon >= c_start \/ lon < c_next

\* C6: planet_house_number assigns every longitude in [0,360) to exactly the
\* house whose closed-open interval [cusp_i, cusp_{i+1}) contains it, for cusp
\* sets taken by the sign-arithmetic branch (Whole Sign and Equal House) and
\* for cusp sets taken by the interval scan.
C6_ClosedOpenHouse ==
    call = "planet_house_number" =>
        \A h \in 1..12 : (ret.house = h) <=> InHouse(args.lon, args.cusps, h)

\* C9: whole_sign_cusps and equal_house_cusps return 12 cusps, each
\* consecutive pair (house 12 back to house 1 included) exactly 30 degrees
\* apart modulo 360.
C9_ThirtyApart ==
    call \in {"whole_sign_cusps", "equal_house_cusps"} =>
        /\ Len(ret.cusps) = 12
        /\ \A i \in 1..12 :
              (ret.cusps[(i % 12) + 1] - ret.cusps[i]) % Circle = 30 * Deg

\* Equal House cusps of an Ascendant in the last sign, off the sign boundary,
\* wrap through 360/0 between two houses
C9_Witness ==
    /\ call = "equal_house_cusps"
    /\ args.ascendant = 345 * Deg
    /\ ret.cusps[1] = 345 * Deg
    /\ ret.cusps[2] = 15 * Deg
    /\ ret.cusps[12] = 315 * Deg

\* C10: the first cusp c of whole_sign_cusps(a) is a multiple of 30 with
\* c <= a < c + 30.
C10_SignBoundaryAtOrBefore ==
    call = "whole_sign_cusps" =>
        /\ ret.cusps[1] % (30 * Deg) = 0
        /\ ret.cusps[1] <= args.ascendant
        /\ args.ascendant < ret.cusps[1] + 30 * Deg

\* an Ascendant in the last micro-degree of a sign keeps that sign's boundary
C10_Witness ==
    /\ call = "whole_sign_cusps"
    /\ args.ascendant = 90 * Deg - 1
    /\ ret.cusps[1] = 60 * Deg

\* C12: for every Ascendant and Midheaven, koch_cusps returns house 1 =
\* Ascendant, house 4 = IC (Midheaven + 180), house 7 = Descendant
\* (Ascendant + 180) and house 10 = Midheaven.
C12_KochAngles ==
    call = "koch_cusps" =>
        /\ ret.cusps[1] = args.ascendant
        /\ ret.cusps[4] = (args.mc + 180 * Deg) % Circle
        /\ ret.cusps[7] = (args.ascendant + 180 * Deg) % Circle
        /\ ret.cusps[10] = args.mc

(***************************************************************************)
(* Specification of the ayanamsa: a sequence of calls of get_ayanamsa and  *)
(* tropical_to_sidereal; ret is the log of the calls made so far, each     *)
(* with its arguments and the value it returned.                           *)
(***************************************************************************)
\* the number of calls in a behaviour
MaxCalls == 2

\* the four systems of the table, one of them also in capitals, and a name
\* that is not in the table
AyanamsaSamples == {"lahiri", "raman", "kp", "fagan", "LAHIRI", "krishnamurti"}

KnownAyanamsa == {"lahiri", "raman", "kp", "fagan"}

\* T of the first and of the last minute of the years covered, of J2000.0
\* and of one minute after J2000.0
TSamples ==
    { JulianCenturies(gregorian_to_jd(MinYear, 1, 1, 0)),
      JulianCenturies(gregorian_to_jd(2000, 1, 1, 720)),
      JulianCenturies(gregorian_to_jd(2000, 1, 1, 721)),
      JulianCenturies(gregorian_to_jd(MaxYear, 12, 31, 1439)) }

\* tropical longitudes: one that the ayanamsa carries back through 0/360 and
\* the last fraction of a micro-degree of the zodiac
TropicalSamples == { [u |-> 12 * Deg + 345678, t |-> 0], [u |-> 359999999, t |-> 6] }

InitAyanamsa ==
    /\ call = "input"
    /\ args = NoValue
    /\ ret = << >>

GetAyanamsa ==
    /\ Len(ret) < MaxCalls
    /\ \E T \in TSamples, system \in AyanamsaSamples :
          /\ args' = [T |-> T, system |-> system]
          /\ ret' = Append(ret, [fn |-> "get_ayanamsa", T |-> T, system |-> system,
                                  lon |-> NoValue,
                                  value |-> get_ayanamsa_fine(T, system)])
    /\ call' = "get_ayanamsa"

TropicalToSidereal ==
    /\ Len(ret) < MaxCalls
    /\ \E lon \in TropicalSamples, T \in TSamples, system \in AyanamsaSamples :
          /\ args' = [lon |-> lon, T |-> T, system |-> system]
          /\ ret' = Append(ret, [fn |-> "tropical_to_sidereal", T |-> T,
                                  system |-> system, lon |-> lon,
                                  value |-> tropical_to_sidereal(lon, T, system)])
    /\ call' = "tropical_to_sidereal"

NextAyanamsa == GetAyanamsa \/ TropicalToSidereal

SpecAyanamsa == InitAyanamsa /\ [][NextAyanamsa]_vars

\* the calls of the log, by position
Calls == 1..Len(ret)

\* C15: for any system name that is not one of lahiri, raman, kp, fagan
\* (compared case-insensitively) and any T, get_ayanamsa(T, name) returns
\* what get_ayanamsa(T, 'lahiri') returns, and tropical_to_sidereal(lon, T,
\* name) what it returns with 'lahiri'.
C15_UnknownNameIsLahiri ==
    \A i, j \in Calls :
        ( /\ ret[i].fn = ret[j].fn /\ ret[i].T = ret[j].T /\ ret[i].lon = ret[j].lon
          /\ Lower(ret[i].system) \notin KnownAyanamsa
          /\ ret[j].system = "lahiri" )
        => ret[i].value = ret[j].value

\* an unknown name and lahiri have been asked for at the end of the years
\* covered, where lahiri has drifted apart from the systems of the other rate
C15_Witness ==
    /\ Len(ret) = 2
    /\ ret[1].fn = "get_ayanamsa" /\ ret[2].fn = "get_ayanamsa"
    /\ ret[1].system = "krishnamurti" /\ ret[2].system = "lahiri"
    /\ ret[1].T = ret[2].T /\ ret[1].T.d > 36525
    /\ ret[1].value = ret[2].value
    /\ ret[1].value.u > 25 * Deg

\* C16: for every T, every tropical longitude x and every pair of ayanamsa
\* systems A and B, (tropical_to_sidereal(x, T, A) - tropical_to_sidereal(x,
\* T, B)) mod 360 = (get_ayanamsa(T, B) - get_ayanamsa(T, A)) mod 360,
\* whatever x is.
C16_ShiftIsAyanamsaDifference ==
    \A i, j \in Calls :
        ( /\ ret[i].fn = "tropical_to_sidereal" /\ ret[j].fn = "tropical_to_sidereal"
          /\ ret[i].T = ret[j].T /\ ret[i].lon = ret[j].lon )
        => /\ (ret[i].value.u - ret[j].value.u) % Circle
                 = (get_ayanamsa(ret[j].T, ret[j].system)
                      - get_ayanamsa(ret[i].T, ret[i].system)) % Circle
           /\ ret[i].value.t = ret[j].value.t

\* a longitude of 12.345678 degrees has been converted at J2000.0 with lahiri
\* and with raman: both results are back through 0/360, 1.39315 degrees apart
C16_Witness ==
    /\ Len(ret) = 2
    /\ ret[1].fn = "tropical_to_sidereal" /\ ret[2].fn = "tropical_to_sidereal"
    /\ ret[1].system = "lahiri" /\ ret[2].system = "raman"
    /\ ret[1].T = [d |-> 0, m |-> 0] /\ ret[2].T = ret[1].T
    /\ ret[1].lon.u = 12 * Deg + 345678 /\ ret[2].lon = ret[1].lon
    /\ ret[1].value.u = 348492528
    /\ ret[2].value.u = 349885678

\* T1 is before T2
Before(T1, T2) == T1.d < T2.d \/ (T1.d = T2.d /\ T1.m < T2.m)

\* ayanamsa value a is less than b
Less(a, b) == a.u < b.u \/ (a.u = b.u /\ a.num < b.num)

\* C17: for each of the four ayanamsa systems and any T1 < T2,
\* get_ayanamsa(T2, system) > get_ayanamsa(T1, system).
C17_AyanamsaIncreases ==
    \A i, j \in Calls :
        ( /\ ret[i].fn = "get_ayanamsa" /\ ret[j].fn = "get_ayanamsa"
          /\ ret[i].system = ret[j].system
          /\ ret[i].system \in KnownAyanamsa
          /\ Before(ret[i].T, ret[j].T) )
        => Less(ret[i].value, ret[j].value)

\* kp has been asked for one minute after J2000.0 and then at J2000.0: the
\* value of the later instant is greater by less than a micro-degree
C17_Witness ==
    /\ Len(ret) = 2
    /\ ret[1].fn = "get_ayanamsa" /\ ret[2].fn = "get_ayanamsa"
    /\ ret[1].system = "kp" /\ ret[2].system = "kp"
    /\ ret[2].T = [d |-> 0, m |-> 0] /\ ret[1].T = [d |-> 0, m |-> 1]
    /\ ret[2].value = [u |-> 23863500, num |-> 0]
    /\ ret[1].value.u = 23863500 /\ ret[1].value.num > 0

\* a is within 0.5 degrees of 23 degrees and c hundredths
WithinHalfDegree(a, c) ==
    LET lo == 23 * Deg + c * 10000 - 500000
        hi == 23 * Deg + c * 10000 + 500000
    IN  lo <= a.u /\ (a.u < hi \/ (a.u = hi /\ a.num = 0))

\* a call of get_ayanamsa for lahiri at T = 0
LahiriAtJ2000(i) ==
    /\ ret[i].fn = "get_ayanamsa"
    /\ ret[i].system = "lahiri"
    /\ ret[i].T = [d |-> 0, m |-> 0]

TicksPerDay == MinutesPerDay * 40

DASHA_LORDS == << "Ketu", "Venus", "Sun", "Moon", "Mars", "Rahu", "Jupiter",
                  "Saturn", "Mercury" >>

DASHA_YEARS ==
    [Ketu |-> 7, Venus |-> 20, Sun |-> 6, Moon |-> 10, Mars |-> 7, Rahu |-> 18,
     Jupiter |-> 16, Saturn |-> 19, Mercury |-> 17]

\* TOTAL_YEARS = 120.0
TOTAL_YEARS == 120

\* NAKSHATRA_LORDS, indexed from 1 (nakshatra index + 1)
NAKSHATRA_LORDS ==
    << "Ketu", "Venus", "Sun", "Moon", "Mars", "Rahu", "Jupiter", "Saturn", "Mercury",
       "Ketu", "Venus", "Sun", "Moon", "Mars", "Rahu", "Jupiter", "Saturn", "Mercury",
       "Ketu", "Venus", "Sun", "Moon", "Mars", "Rahu", "Jupiter", "Saturn", "Mercury" >>

\* years_to_days(years) = years * 365.25, in ticks
years_to_days(years) == years * 1461 * (TicksPerDay \div 4)

\* DASHA_LORDS.index(lord)
LordIndex(lord) == CHOOSE i \in 1..Len(DASHA_LORDS) : DASHA_LORDS[i] = lord

\* Faulty variant of dasha_sequence_from: the slice before idx is left out.
dasha_sequence_from_nowrap(lord) ==
    SubSeq(DASHA_LORDS, LordIndex(lord), Len(DASHA_LORDS))

\* _dasha_sequence_from(lord) = DASHA_LORDS[idx:] + DASHA_LORDS[:idx]
dasha_sequence_from(lord) ==
    SubSeq(DASHA_LORDS, LordIndex(lord), Len(DASHA_LORDS))
        \o SubSeq(DASHA_LORDS, 1, LordIndex(lord) - 1)

\* dt + timedelta(days=duration), the duration in ticks
PlusTicks(dt, ticks) ==
    [day |-> dt.day + ((dt.tick + ticks) \div TicksPerDay),
     tick |-> (dt.tick + ticks) % TicksPerDay]

\* the datetimes at which the entries of a list of durations start, the
\* first at start_dt and each next one at the end of the one before
RECURSIVE StartOf(_, _, _)
StartOf(start_dt, durations, i) ==
    IF i = 1 THEN start_dt
    ELSE PlusTicks(StartOf(start_dt, durations, i - 1), durations[i - 1])

\* total * years / 120, within 32 bits
Proportion(total, years) ==
    (total \div TOTAL_YEARS) * years + (((total % TOTAL_YEARS) * years) \div TOTAL_YEARS)

\* Faulty variant of compute_antardasha: the sub-periods are taken from the
\* sub-lord's own years of a full maha dasha of maha_lord, not from
\* total_days.
compute_antardasha_full(maha_lord, start_dt, total_days) ==
    LET sequence == dasha_sequence_from(maha_lord)
        sub_days == [i \in 1..Len(sequence) |->
                        Proportion(years_to_days(DASHA_YEARS[maha_lord]),
                                   DASHA_YEARS[sequence[i]])]
    IN  [i \in 1..Len(sequence) |->
            [lord |-> sequence[i],
             start |-> StartOf(start_dt, sub_days, i).day,
             end |-> PlusTicks(StartOf(start_dt, sub_days, i), sub_days[i]).day,
             current_end |-> PlusTicks(StartOf(start_dt, sub_days, i), sub_days[i]),
             sub_days |-> sub_days[i]]]

\* _compute_antardasha(maha_lord, start_dt, total_days): for each sub_lord of
\* the sequence from maha_lord, sub_days = total_days * DASHA_YEARS[sub_lord]
\* / TOTAL_YEARS; start and end are the dates of current_start and
\* current_end.  current_end and sub_days are the loop's own values.
compute_antardasha(maha_lord, start_dt, total_days) ==
    LET sequence == dasha_sequence_from(maha_lord)
        sub_days == [i \in 1..Len(sequence) |->
                        Proportion(total_days, DASHA_YEARS[sequence[i]])]
    IN  [i \in 1..Len(sequence) |->
            [lord |-> sequence[i],
             start |-> StartOf(start_dt, sub_days, i).day,
             end |-> PlusTicks(StartOf(start_dt, sub_days, i), sub_days[i]).day,
             current_end |-> PlusTicks(StartOf(start_dt, sub_days, i), sub_days[i]),
             sub_days |-> sub_days[i]]]

\* dasha_years_for_lord * (1.0 - elapsed_in_nakshatra) years, in ticks:
\* elapsed = w / 40e6 with w = (3 * lon) % 40e6, so the balance is
\* years * 13149 * (40e6 - w) / 25000 ticks; the product is split to stay
\* within 32 bits.
BalanceDays(years, lon) ==
    LET P  == years * 13149
        m  == 40 * Deg - ((3 * lon) % (40 * Deg))
        mh == m \div 25000
        ml == m % 25000
    IN  P * mh + ((P * (ml \div 100) + ((P * (ml % 100)) \div 100)) \div 250)

\* compute_vimshottari_dasha(moon_sidereal_lon, birth_dt)
compute_vimshottari_dasha(moon_sidereal_lon, birth_dt) ==
    LET nakshatra_idx == ((3 * moon_sidereal_lon) \div (40 * Deg)) % 27
        starting_lord == NAKSHATRA_LORDS[nakshatra_idx + 1]
        balance_days  == BalanceDays(DASHA_YEARS[starting_lord], moon_sidereal_lon)
        sequence      == dasha_sequence_from(starting_lord)
        duration_days == [i \in 1..Len(sequence) |->
                             IF i = 1 THEN balance_days
                             ELSE years_to_days(DASHA_YEARS[sequence[i]])]
    IN  [i \in 1..Len(sequence) |->
            LET current_start == StartOf(birth_dt, duration_days, i)
                current_end   == PlusTicks(current_start, duration_days[i])
            IN  [lord |-> sequence[i],
                 start |-> current_start.day,
                 end |-> current_end.day,
                 current_end |-> current_end,
                 duration_days |-> duration_days[i],
                 antardashas |-> compute_antardasha(sequence[i], current_start,
                                                    duration_days[i])]]

(***************************************************************************)
(* Specification of the dasha: pick a Moon longitude and a birth datetime, *)
(* then compute_vimshottari_dasha.                                         *)
(***************************************************************************)
\* Moon longitudes: every whole degree of the zodiac
MoonDashaSamples == {d * Deg : d \in 0..359}

\* births at 0h, in the morning and in the last tick of a day
BirthDtSamples ==
    { [day |-> gregorian_to_jd(MinYear, 1, 1, 0).d, tick |-> 0],
      [day |-> gregorian_to_jd(1990, 6, 15, 0).d, tick |-> 630 * 40],
      [day |-> gregorian_to_jd(MaxYear, 12, 31, 0).d, tick |-> TicksPerDay - 1] }

InitDasha ==
    /\ call = "input"
    /\ \E lon \in MoonDashaSamples, dt \in BirthDtSamples :
          args = [moon_sidereal_lon |-> lon, birth_dt |-> dt]
    /\ ret = NoValue

ComputeVimshottariDasha ==
    /\ call = "input"
    /\ call' = "compute_vimshottari_dasha"
    /\ ret' = [periods |-> compute_vimshottari_dasha(args.moon_sidereal_lon,
                                                     args.birth_dt)]
    /\ UNCHANGED args

NextDasha == ComputeVimshottariDasha

SpecDasha == InitDasha /\ [][NextDasha]_vars

\* the k-th lord, counted from 0, of the cycle started at its n-th lord
CycleFrom(n, k) == DASHA_LORDS[((n + k) % 9) + 1]

\* C21: for every Moon sidereal longitude in [0,360) and every birth
\* datetime, compute_vimshottari_dasha returns exactly 9 maha dasha periods
\* whose lords are the cycle (Ketu, Venus, Sun, Moon, Mars, Rahu, Jupiter,
\* Saturn, Mercury) rotated to start at the lord of the Moon's nakshatra
\* (nakshatra index mod 9), and every period carries exactly 9 antardashas
\* whose lords are the same cycle rotated to start at that period's lord.
C21_DashaLords ==
    call = "compute_vimshottari_dasha" =>
        LET nak == (3 * args.moon_sidereal_lon) \div (40 * Deg)
        IN  /\ Len(ret.periods) = 9
            /\ \A i \in 1..9 :
                  /\ i <= Len(ret.periods)
                  /\ ret.periods[i].lord = CycleFrom(nak % 9, i - 1)
                  /\ Len(ret.periods[i].antardashas) = 9
                  /\ \A j \in 1..9 :
                        ret.periods[i].antardashas[j].lord
                            = CycleFrom((nak % 9) + i - 1, j - 1)

\* a Moon at 100 degrees is in nakshatra 7 (Pushya, lord Saturn): the maha
\* dashas run Saturn, Mercury, Ketu, ... and the third one's antardashas
\* start with Ketu and end with Mercury
C21_Witness ==
    /\ call = "compute_vimshottari_dasha"
    /\ args.moon_sidereal_lon = 100 * Deg
    /\ ret.periods[1].lord = "Saturn"
    /\ ret.periods[2].lord = "Mercury"
    /\ ret.periods[3].lord = "Ketu"
    /\ ret.periods[9].lord = "Jupiter"
    /\ ret.periods[3].antardashas[1].lord = "Ketu"
    /\ ret.periods[3].antardashas[9].lord = "Mercury"

\* the sum of the sub_days of the first n antardashas of a period
RECURSIVE SumSubDays(_, _)
SumSubDays(antardashas, n) ==
    IF n = 0 THEN 0 ELSE SumSubDays(antardashas, n - 1) + antardashas[n].sub_days

\* C29: the periods returned by compute_vimshottari_dasha form a gap-free,
\* non-overlapping timeline: the first maha dasha starts at the birth
\* datetime, every later one starts when the previous ends, and within
\* every maha dasha (the shortened first one included) the 9 antardashas are
\* contiguous from the maha dasha's start and their durations sum to the
\* maha dasha's duration, so the last antardasha ends when the maha dasha
\* ends.
C29_DashaTimeline ==
    call = "compute_vimshottari_dasha" =>
        /\ ret.periods[1].start = args.birth_dt.day
        /\ ret.periods[1].current_end
               = PlusTicks(args.birth_dt, ret.periods[1].duration_days)
        /\ \A i \in 1..Len(ret.periods) :
              LET p == ret.periods[i]
                  n == Len(p.antardashas)
              IN  /\ p.start <= p.end
                  /\ i > 1 => /\ p.start = ret.periods[i - 1].end
                              /\ p.current_end
                                    = PlusTicks(ret.periods[i - 1].current_end,
                                                p.duration_days)
                  /\ p.antardashas[1].start = p.start
                  /\ \A j \in 2..n :
                        /\ p.antardashas[j].start = p.antardashas[j - 1].end
                        /\ p.antardashas[j].current_end
                              = PlusTicks(p.antardashas[j - 1].current_end,
                                          p.antardashas[j].sub_days)
                  /\ \A j \in 1..n : p.antardashas[j].start <= p.antardashas[j].end
                  /\ SumSubDays(p.antardashas, n) = p.duration_days
                  /\ p.antardashas[n].current_end = p.current_end
                  /\ p.antardashas[n].end = p.end

\* a Moon at 100 degrees is half way through its nakshatra: the first maha
\* dasha (Saturn) lasts 9.5 of its 19 years, and its last antardasha
\* (Jupiter) ends with it
C29_Witness ==
    /\ call = "compute_vimshottari_dasha"
    /\ args.moon_sidereal_lon = 100 * Deg
    /\ args.birth_dt.tick > 0
    /\ 2 * ret.periods[1].duration_days = years_to_days(19)
    /\ ret.periods[1].antardashas[9].lord = "Jupiter"
    /\ ret.periods[1].antardashas[9].current_end = ret.periods[1].current_end
    /\ ret.periods[1].end > ret.periods[1].start
    /\ ret.periods[2].start = ret.periods[1].end

(***************************************************************************)
(* PANCHANG  (panchang.py)                                                 *)
(***************************************************************************)
TITHIS ==
    << "Pratipada", "Dvitiya", "Tritiya", "Chaturthi", "Panchami",
       "Shashthi", "Saptami", "Ashtami", "Navami", "Dashami",
       "Ekadashi", "Dvadashi", "Trayodashi", "Chaturdashi", "Purnima",
       "Pratipada", "Dvitiya", "Tritiya", "Chaturthi", "Panchami",
       "Shashthi", "Saptami", "Ashtami", "Navami", "Dashami",
       "Ekadashi", "Dvadashi", "Trayodashi", "Chaturdashi", "Amavasya" >>

\* PAKSHA = ["Shukla"] * 15 + ["Krishna"] * 15
PAKSHA == [i \in 1..30 |-> IF i <= 15 THEN "Shukla" ELSE "Krishna"]

\* round(num / den) of Python 3: to nearest, ties to even; den > 0, num >= 0
RoundHalfEven(num, den) ==
    LET q == num \div den
        r == num % den
    IN  IF 2 * r > den \/ (2 * r = den /\ q % 2 = 1) THEN q + 1 ELSE q

\* Faulty variant of compute_tithi: the tithi index is rounded to the nearest
\* tithi instead of truncated.
compute_tithi_nearest(sun_sid, moon_sid) ==
    LET diff      == (moon_sid - sun_sid) % Circle
        tithi_idx == RoundHalfEven(diff, 12 * Deg) % 30
    IN  [index |-> tithi_idx + 1,
         name |-> TITHIS[tithi_idx + 1],
         paksha |-> PAKSHA[tithi_idx + 1],
         elapsed_pct |-> RoundHalfEven(diff % (12 * Deg), 12000)]

\* compute_tithi(sun_sid, moon_sid); elapsed_pct in tenths of a percent
compute_tithi(sun_sid, moon_sid) ==
    LET diff      == (moon_sid - sun_sid) % Circle
        tithi_idx == PyInt(diff, 12 * Deg)
    IN  [index |-> tithi_idx + 1,
         name |-> TITHIS[tithi_idx + 1],
         paksha |-> PAKSHA[tithi_idx + 1],
         elapsed_pct |-> RoundHalfEven(diff % (12 * Deg), 12000)]

(***************************************************************************)
(* Specification of the tithi: pick the two sidereal longitudes, then      *)
(* compute_tithi.                                                          *)
(***************************************************************************)
TithiSunSamples == {0, 100 * Deg, 350 * Deg + 1, Circle - 1}

\* separations at, just after, in the middle of and just before every
\* multiple of 12 degrees
SeparationSamples ==
    {k * 12 * Deg + e : k \in 0..29, e \in {0, 1, 6 * Deg, 12 * Deg - 1}}

InitTithi ==
    /\ call = "input"
    /\ \E sun \in TithiSunSamples, sep \in SeparationSamples :
          args = [sun_sid |-> sun, moon_sid |-> (sun + sep) % Circle]
    /\ ret = NoValue

ComputeTithi ==
    /\ call = "input"
    /\ call' = "compute_tithi"
    /\ ret' = compute_tithi(args.sun_sid, args.moon_sid)
    /\ UNCHANGED args

NextTithi == ComputeTithi

SpecTithi == InitTithi /\ [][NextTithi]_vars

\* (moon - sun) mod 360, in micro-degrees, written without the modulo
Separation ==
    IF args.moon_sid >= args.sun_sid THEN args.moon_sid - args.sun_sid
    ELSE args.moon_sid - args.sun_sid + Circle

RAHU_KALA_SLOT == [w \in 0..6 |-> << 8, 2, 7, 5, 6, 4, 3 >>[w + 1]]

\* parse_hhmm(s) = h + m / 60.0, in eighths of a minute
parse_hhmm(s) == 8 * (60 * s.h + s.m)

\* fmt(h): hh = int(h) % 24, mm = round((h % 1) * 60).  At a half minute the
\* float product is just below or just above the half and rounds either
\* way; half_up says which.  (At a whole hour the float h may be just below
\* it, and the code then prints the minute 60 of the hour before: the same
\* number of minutes.)
fmt(h, half_up) ==
    LET q == (h % 480) \div 8
        r == (h % 480) % 8
    IN  [h |-> PyInt(h, 480) % 24,
         m |-> IF r > 4 \/ (r = 4 /\ half_up) THEN q + 1 ELSE q]

\* compute_rahu_kala(sunrise_utc, sunset_utc, weekday)
compute_rahu_kala(sunrise_utc, sunset_utc, weekday, half_up) ==
    IF sunrise_utc = NoValue \/ sunset_utc = NoValue
    THEN [start |-> NoValue, end |-> NoValue]
    ELSE LET sr == parse_hhmm(sunrise_utc)
             ss == parse_hhmm(sunset_utc)
             day_duration == ss - sr
             \* slot * slot_duration = slot * day_duration / 8.0
             slot == RAHU_KALA_SLOT[weekday] - 1
             start == sr + slot * (day_duration \div 8)
             end == start + (day_duration \div 8)
         IN  [start |-> fmt(start, half_up.start), end |-> fmt(end, half_up.end)]

(***************************************************************************)
(* Specification of the Rahu Kala: pick the sunrise and sunset that        *)
(* compute_sunrise_sunset reports (or none, in the polar case) and a       *)
(* weekday, then compute_rahu_kala as compute_panchang calls it.           *)
(***************************************************************************)
\* sunrises in UTC: soon after midnight, in the evening, in the morning and
\* in the afternoon
SunriseSamples ==
    { [h |-> 0, m |-> 30], [h |-> 21, m |-> 15], [h |-> 6, m |-> 0],
      [h |-> 13, m |-> 42] }

\* daytime lengths in minutes: 7:56, 10:01, 12:00, 14:26
DaytimeSamples == {476, 601, 720, 866}

ClockOf(minutes) == [h |-> (minutes % MinutesPerDay) \div 60, m |-> minutes % 60]

InitRahuKala ==
    /\ call = "input"
    /\ \E weekday \in 0..6, up1 \in BOOLEAN, up2 \in BOOLEAN :
          \/ \E sr \in SunriseSamples, d \in DaytimeSamples :
                args = [sunrise_utc |-> sr,
                        sunset_utc |-> ClockOf(60 * sr.h + sr.m + d),
                        weekday |-> weekday,
                        half_up |-> [start |-> up1, end |-> up2]]
          \/ args = [sunrise_utc |-> NoValue, sunset_utc |-> NoValue,
                     weekday |-> weekday,
                     half_up |-> [start |-> up1, end |-> up2]]
    /\ ret = NoValue

ComputeRahuKala ==
    /\ call = "input"
    /\ call' = "compute_rahu_kala"
    /\ ret' = compute_rahu_kala(args.sunrise_utc, args.sunset_utc, args.weekday,
                                args.half_up)
    /\ UNCHANGED args

NextRahuKala == ComputeRahuKala

SpecRahuKala == InitRahuKala /\ [][NextRahuKala]_vars

\* minutes from clock time a on to clock time b, around the 24-hour clock
MinutesOn(a, b) == ((60 * b.h + b.m) - (60 * a.h + a.m)) % MinutesPerDay

\* C30: for every weekday and every sunrise/sunset pair, compute_rahu_kala
\* returns an interval one eighth of the daytime long (to the minute it is
\* reported in) with start before end, lying inside the daytime from
\* sunrise to sunset, including when the sunset's UTC clock time is
\* numerically earlier than the sunrise's because the local daytime spans
\* UTC midnight.
C30_RahuKalaInsideDaytime ==
    (call = "compute_rahu_kala" /\ args.sunrise_utc # NoValue) =>
        LET daytime == MinutesOn(args.sunrise_utc, args.sunset_utc)
            first   == MinutesOn(args.sunrise_utc, ret.start)
            last    == MinutesOn(args.sunrise_utc, ret.end)
        IN  /\ first < last
            /\ last <= daytime
            /\ Abs(8 * (last - first) - daytime) <= 8

(***************************************************************************)
(* THE ITERATIVE SOLVERS  (_solve_kepler of ephemeris.py, placidus_cusp of *)
(* houses.py), one loop pass per step.  The size of a pass's correction    *)
(* is a value of the trigonometric expressions: the input says at which    *)
(* pass it first falls below the tolerance (0: at none) and, for           *)
(* placidus_cusp, at which pass acos raises (0: at none).  The state of a  *)
(* loop is [steps, converged, raised, ended].                              *)
(***************************************************************************)
\* for _ in range(50)
KeplerMaxIter == 50

\* for _ in range(20)
PlacidusMaxIter == 20

LoopStart == [steps |-> 0, converged |-> FALSE, raised |-> FALSE, ended |-> FALSE]

\* Faulty variant of solve_kepler_step: the range is one pass longer.
solve_kepler_step_longer(st, within_tol) ==
    [steps |-> st.steps + 1,
     converged |-> within_tol,
     raised |-> FALSE,
     ended |-> within_tol \/ st.steps + 1 = KeplerMaxIter + 1]

\* one pass of the loop of _solve_kepler: dE is computed and added to E; the
\* loop breaks if abs(dE) < tol and ends when the range is used up
solve_kepler_step(st, within_tol) ==
    [steps |-> st.steps + 1,
     converged |-> within_tol,
     raised |-> FALSE,
     ended |-> within_tol \/ st.steps + 1 = KeplerMaxIter]

\* one pass of the loop of placidus_cusp: asin and acos are evaluated (acos
\* raises ValueError outside [-1, 1]), ra_new is computed; the loop breaks
\* if abs(ra_new - ra_estimate) < 1e-10 and ends when the range is used up
placidus_cusp_step(st, within_tol, raises) ==
    [steps |-> st.steps + 1,
     converged |-> ~raises /\ within_tol,
     raised |-> raises,
     ended |-> raises \/ within_tol \/ st.steps + 1 = PlacidusMaxIter]

InitSolve ==
    /\ call = "input"
    /\ \/ \E k \in 0..KeplerMaxIter :
             args = [solver |-> "_solve_kepler", within_tol_at |-> k, raises_at |-> 0]
       \/ \E k \in 0..PlacidusMaxIter, r \in 0..PlacidusMaxIter :
             args = [solver |-> "placidus_cusp", within_tol_at |-> k, raises_at |-> r]
    /\ ret = NoValue

\* _solve_kepler is entered: E gets its starting value
SolveKepler ==
    /\ call = "input"
    /\ args.solver = "_solve_kepler"
    /\ call' = "_solve_kepler"
    /\ ret' = LoopStart
    /\ UNCHANGED args

KeplerIterate ==
    /\ call = "_solve_kepler"
    /\ ~ret.ended
    /\ ret' = solve_kepler_step(ret, ret.steps + 1 = args.within_tol_at)
    /\ UNCHANGED << call, args >>

\* placidus_cusp is entered: ra_estimate gets its starting value
PlacidusCusp ==
    /\ call = "input"
    /\ args.solver = "placidus_cusp"
    /\ call' = "placidus_cusp"
    /\ ret' = LoopStart
    /\ UNCHANGED args

PlacidusIterate ==
    /\ call = "placidus_cusp"
    /\ ~ret.ended
    /\ ret' = placidus_cusp_step(ret, ret.steps + 1 = args.within_tol_at,
                                 ret.steps + 1 = args.raises_at)
    /\ UNCHANGED << call, args >>

NextSolve == SolveKepler \/ KeplerIterate \/ PlacidusCusp \/ PlacidusIterate

\* a loop that has not ended takes its next pass
SpecSolve == InitSolve /\ [][NextSolve]_vars /\ WF_vars(NextSolve)

\* no loop passes its cap, a loop at its cap has ended, and a loop that
\* ended without raising ended on the tolerance or at the cap
SolversBounded ==
    /\ call = "_solve_kepler" =>
          /\ ret.steps <= 50
          /\ ret.steps = 50 => ret.ended
          /\ (ret.ended /\ ~ret.raised) => (ret.converged \/ ret.steps = 50)
    /\ call = "placidus_cusp" =>
          /\ ret.steps <= 20
          /\ ret.steps = 20 => ret.ended
          /\ (ret.ended /\ ~ret.raised) => (ret.converged \/ ret.steps = 20)

SolverEnded == call \in {"_solve_kepler", "placidus_cusp"} /\ ret.ended

HourSamples == {0, 1, 719, 720, 1439}

CivilDates ==
    {dt \in [year : MinYear..MaxYear, month : 1..12, day : 1..31] :
        dt.day <= DaysInMonth(dt.year, dt.month)}

(***************************************************************************)
(* Specification of the time conversion: pick a civil date, convert it to  *)
(* a Julian Day, convert the Julian Day back.                              *)
(***************************************************************************)
InitJD ==
    /\ call = "input"
    /\ \E dt \in CivilDates, h \in HourSamples :
          args = [year |-> dt.year, month |-> dt.month, day |-> dt.day, hourMin |-> h]
    /\ ret = NoValue

GregorianToJd ==
    /\ call = "input"
    /\ call' = "gregorian_to_jd"
    /\ ret' = [jd |-> gregorian_to_jd(args.year, args.month, args.day, args.hourMin)]
    /\ UNCHANGED args

JdToGregorian ==
    /\ call = "gregorian_to_jd"
    /\ call' = "jd_to_gregorian"
    /\ ret' = [jd |-> ret.jd, greg |-> jd_to_gregorian(ret.jd)]
    /\ UNCHANGED args

NextJD == GregorianToJd \/ JdToGregorian

SpecJD == InitJD /\ [][NextJD]_vars

\* C1: for every civil date 1800-01-01..2100-12-31 and hour fraction in
\* [0,24), jd_to_gregorian(gregorian_to_jd(y, m, d, h)) returns the same
\* year, the same month and the day-with-fraction d + h/24.
C1_RoundTrip ==
    call = "jd_to_gregorian" =>
        /\ ret.greg.year = args.year
        /\ ret.greg.month = args.month
        /\ ret.greg.day = args.day
        /\ ret.greg.dayMin = args.hourMin

\* a leap day of a century year, late in the evening, has made the round trip
C1_Witness ==
    /\ call = "jd_to_gregorian"
    /\ args.year = 2000 /\ args.month = 2 /\ args.day = 29 /\ args.hourMin = 1439
    /\ ret.greg = [year |-> 2000, month |-> 2, day |-> 29, dayMin |-> 1439]

\* C2: gregorian_to_jd gives the standard Julian Day of known dates:
\* (2000,1,1,12h) -> 2451545.0, (1900,1,1,0h) -> 2415020.5 and
\* (2023,6,21,0h) -> 2460116.5.
C2_KnownJulianDays ==
    call = "gregorian_to_jd" =>
        /\ (args = [year |-> 2000, month |-> 1, day |-> 1, hourMin |-> 720]
              => ret.jd = [d |-> 2451545, m |-> 0])
        /\ (args = [year |-> 1900, month |-> 1, day |-> 1, hourMin |-> 0]
              => ret.jd = [d |-> 2415020, m |-> 720])
        /\ (args = [year |-> 2023, month |-> 6, day |-> 21, hourMin |-> 0]
              => ret.jd = [d |-> 2460116, m |-> 720])

\* the J2000.0 epoch has been converted
C2_Witness ==
    /\ call = "gregorian_to_jd"
    /\ args = [year |-> 2000, month |-> 1, day |-> 1, hourMin |-> 720]
    /\ ret.jd = [d |-> 2451545, m |-> 0]

=============================================================================
